---------------------------- MODULE Spec2Model ----------------------------
(***************************************************************************)
(* Model of src/app.py, the Streamlit dashboard script.  One run of the    *)
(* script renders one page: "Sensor 1", "Sensor 2" or "Camera Sensor".     *)
(* Text is a sequence of one-character strings, so that str.lower and the  *)
(* substring test `k in obj` are computed character by character.          *)
(* A timestamp is a whole number of ticks, TicksPerDay ticks to the day,   *)
(* so that `.dt.date` really discards the time of day.  A Percentage is    *)
(* kept in hundredths of a percent (3333 is 33.33), the precision that     *)
(* round(2) leaves.                                                        *)
(***************************************************************************)
EXTENDS Integers, Sequences, FiniteSets, TLC

VARIABLES
    page,            \* the sidebar radio's value (line 11)
    pc,              \* "start": the script has not run; "done"; "error": it raised
    camera_csv,      \* load_csv(camera_file): [column, rows]
    sensor_csv,      \* load_csv(sensor1_file / sensor2_file): sequence of readings
    date_range,      \* the date_input widget's value set by the user, <<>> before
    detected_object, \* df_camera['detected_object'] after normalisation
    category,        \* df_camera['category']
    summary,         \* the summary DataFrame: rows [Category, Count, Percentage]
    selected,        \* <<start_date, end_date>> the run unpacked, <<>> if none
    df,              \* df1 / df2 after the date filter
    cards,           \* the st.metric cards the run emitted
    out              \* the elements the run emitted, in order

vars == <<page, pc, camera_csv, sensor_csv, date_range, detected_object,
          category, summary, selected, df, cards, out>>

---------------------------------------------------------------------------
(* Bounds of the model *)

MaxRows == 6

MaxFrags == 2

MaxReadings == 2

MaxDay == 2

TicksPerDay == 2

(* Constants of the program *)

Hundred == 100

Decimals == 2

DefaultWindowDays == 30

---------------------------------------------------------------------------
(* Text *)

UpperLetters ==
    <<"A", "B", "C", "D", "E", "F", "G", "H", "I", "J", "K", "L", "M",
      "N", "O", "P", "Q", "R", "S", "T", "U", "V", "W", "X", "Y", "Z">>

LowerLetters ==
    <<"a", "b", "c", "d", "e", "f", "g", "h", "i", "j", "k", "l", "m",
      "n", "o", "p", "q", "r", "s", "t", "u", "v", "w", "x", "y", "z">>

IndexIn(letters, c) ==
    IF \E i \in DOMAIN letters : letters[i] = c
    THEN CHOOSE i \in DOMAIN letters : letters[i] = c
    ELSE 0

\* a cell that read_csv found empty: the float NaN
NaN == <<"<NaN>">>

\* .astype(str): text stays, the missing value becomes the text "nan"
astype_str(cell) == IF cell = NaN THEN <<"n", "a", "n">> ELSE cell

\* str.lower() without the case mapping: the text unchanged
lower_identity(s) == s

\* .str.lower(): every upper-case letter is replaced, anything else is kept
lower(s) ==
    [i \in DOMAIN s |->
        IF IndexIn(UpperLetters, s[i]) > 0
        THEN LowerLetters[IndexIn(UpperLetters, s[i])]
        ELSE s[i]]

\* `k in obj` on two strings: k occurs at some offset of obj
contains(k, obj) ==
    \E i \in 0..(Len(obj) - Len(k)) : SubSeq(obj, i + 1, i + Len(k)) = k

---------------------------------------------------------------------------
(* The taxonomy and the classifier *)

categories == <<
    [cat |-> "snail-infested crops",
     keywords |-> <<
        <<"s", "n", "a", "i", "l">>,
        <<"s", "n", "a", "i", "l", " ", "i", "n", "f", "e", "s", "t", "a", "t", "i", "o", "n">>,
        <<"i", "n", "f", "e", "s", "t", "e", "d">>,
        <<"s", "n", "a", "i", "l", "-", "i", "n", "f", "e", "s", "t", "e", "d">>
     >>],
    [cat |-> "stressed crops",
     keywords |-> <<
        <<"s", "t", "r", "e", "s", "s", "e", "d">>,
        <<"w", "i", "l", "t", "i", "n", "g">>,
        <<"y", "e", "l", "l", "o", "w">>,
        <<"d", "e", "h", "y", "d", "r", "a", "t", "e", "d">>,
        <<"d", "e", "f", "i", "c", "i", "e", "n", "t">>
     >>],
    [cat |-> "healthy crops",
     keywords |-> <<
        <<"h", "e", "a", "l", "t", "h", "y">>,
        <<"g", "r", "e", "e", "n">>,
        <<"g", "o", "o", "d">>,
        <<"n", "o", "r", "m", "a", "l">>
     >>],
    [cat |-> "dead crops",
     keywords |-> <<
        <<"d", "e", "a", "d">>,
        <<"d", "r", "y">>,
        <<"r", "o", "t", "t", "e", "n">>,
        <<"d", "e", "s", "t", "r", "o", "y", "e", "d">>
     >>]
>>

\* any(k in obj for k in keywords)
any_keyword(keywords, obj) ==
    \E j \in DOMAIN keywords : contains(keywords[j], obj)

\* the for loop of categorize from the i-th category on
RECURSIVE categorize_from(_, _)
categorize_from(i, obj) ==
    IF i > Len(categories) THEN "unclassified"
    ELSE IF any_keyword(categories[i].keywords, obj) THEN categories[i].cat
    ELSE categorize_from(i + 1, obj)

\* categorize that walks the taxonomy from its last category to its first
RECURSIVE categorize_back(_, _)
categorize_back(i, obj) ==
    IF i < 1 THEN "unclassified"
    ELSE IF any_keyword(categories[i].keywords, obj) THEN categories[i].cat
    ELSE categorize_back(i - 1, obj)

categorize_reversed(obj) == categorize_back(Len(categories), obj)

\* categorize whose loop stops one category short of the end
categorize_misses_last(obj) ==
    IF categorize_from(1, obj) = categories[Len(categories)].cat
    THEN "unclassified"
    ELSE categorize_from(1, obj)

categorize(obj) == categorize_from(1, obj)

---------------------------------------------------------------------------
(* The summary *)

\* value_counts that misses the first row
value_counts_skip_first(col) ==
    [c \in {col[i] : i \in DOMAIN col} |->
        Cardinality({i \in DOMAIN col : i > 1 /\ col[i] = c})]

\* .value_counts(): one entry per value that occurs, with its number of rows
value_counts(col) ==
    [c \in {col[i] : i \in DOMAIN col} |->
        Cardinality({i \in DOMAIN col : col[i] = c})]

\* the summary without the reindex: one row per value that occurs
reindex_absent(counts) ==
    LET present == SelectSeq([i \in DOMAIN categories |-> categories[i].cat],
                             LAMBDA c : c \in DOMAIN counts)
        extra == IF "unclassified" \in DOMAIN counts
                 THEN <<"unclassified">> ELSE <<>>
    IN [i \in DOMAIN (present \o extra) |->
           [Category |-> (present \o extra)[i],
            Count |-> counts[(present \o extra)[i]]]]

\* .reindex(categories.keys(), fill_value=0).reset_index() and the renaming
\* of the columns: one row per declared category, in the declared order
reindex(counts) ==
    [i \in DOMAIN categories |->
        [Category |-> categories[i].cat,
         Count |-> IF categories[i].cat \in DOMAIN counts
                   THEN counts[categories[i].cat] ELSE 0]]

RECURSIVE sum_from(_, _, _)
sum_from(rows, f, i) ==
    IF i > Len(rows) THEN 0 ELSE rows[i][f] + sum_from(rows, f, i + 1)

\* summary['Count'].sum()
Sum(rows, f) == sum_from(rows, f, 1)

RECURSIVE Pow10(_)
Pow10(n) == IF n = 0 THEN 1 ELSE 10 * Pow10(n - 1)

\* rounding to the nearest, a tie to the even neighbour (numpy's round)
round_half_even(num, den) ==
    LET q == num \div den
        r == num % den
    IN IF 2 * r < den THEN q
       ELSE IF 2 * r > den THEN q + 1
       ELSE IF q % 2 = 0 THEN q ELSE q + 1

\* the percentage without the guard on the total: a division by zero gives
\* NaN, written -1 here
percentage_unguarded(count, total) ==
    IF total = 0 THEN -1
    ELSE round_half_even(count * Hundred * Pow10(Decimals), total)

\* the percentage rounded to a whole percent
percentage_whole(count, total) ==
    IF total > 0
    THEN round_half_even(count * Hundred, total) * Pow10(Decimals)
    ELSE 0

\* (Count / total * 100).round(2) if total > 0 else 0, in hundredths
percentage(count, total) ==
    IF total > 0
    THEN round_half_even(count * Hundred * Pow10(Decimals), total)
    ELSE 0

with_percentage(rows) ==
    [i \in DOMAIN rows |->
        [Category |-> rows[i].Category,
         Count |-> rows[i].Count,
         Percentage |-> percentage(rows[i].Count, Sum(rows, "Count"))]]

---------------------------------------------------------------------------
(* The Camera Sensor page *)

\* the normalisation of line 205, cell by cell
normalize(rows) == [i \in DOMAIN rows |-> lower(astype_str(rows[i]))]

\* .apply(categorize)
apply_categorize(col) == [i \in DOMAIN col |-> categorize(col[i])]

\* the if branch: the camera table has a 'detected_object' column
CameraClassify ==
    /\ page = "Camera Sensor"
    /\ pc = "start"
    /\ camera_csv.column = "detected_object"
    /\ detected_object' = normalize(camera_csv.rows)
    /\ category' = apply_categorize(detected_object')
    /\ summary' = with_percentage(reindex(value_counts(category')))
    /\ out' = <<"title", "plotly_chart", "subheader", "dataframe">>
    /\ pc' = "done"
    /\ UNCHANGED <<page, camera_csv, sensor_csv, date_range, selected, df, cards>>

\* the page without the guard of line 203: df_camera['detected_object']
\* raises KeyError when the column is absent
CameraUnguarded ==
    /\ page = "Camera Sensor"
    /\ pc = "start"
    /\ camera_csv.column # "detected_object"
    /\ out' = <<"title">>
    /\ pc' = "error"
    /\ UNCHANGED <<page, camera_csv, sensor_csv, date_range, detected_object,
                   category, summary, selected, df, cards>>

\* the else branch: no 'detected_object' column
CameraMissingColumn ==
    /\ page = "Camera Sensor"
    /\ pc = "start"
    /\ camera_csv.column # "detected_object"
    /\ out' = <<"title", "warning">>
    /\ pc' = "done"
    /\ UNCHANGED <<page, camera_csv, sensor_csv, date_range, detected_object,
                   category, summary, selected, df, cards>>

---------------------------------------------------------------------------
(* The Sensor 1 and Sensor 2 pages *)

\* .dt.date / .date(): the day of a timestamp, its time of day dropped
date(ts) == ts \div TicksPerDay

SetMax(S) == CHOOSE x \in S : \A y \in S : y <= x

SetMin(S) == CHOOSE x \in S : \A y \in S : x <= y

ColumnSet(rows, f) == {rows[i][f] : i \in DOMAIN rows}

\* the four st.metric cards of a non-empty table
metric_cards(rows) ==
    << [label |-> "Highest raw_adc", value |-> SetMax(ColumnSet(rows, "raw_adc"))],
       [label |-> "Lowest raw_adc", value |-> SetMin(ColumnSet(rows, "raw_adc"))],
       [label |-> "Highest vwc_percent", value |-> SetMax(ColumnSet(rows, "vwc_percent"))],
       [label |-> "Lowest vwc_percent", value |-> SetMin(ColumnSet(rows, "vwc_percent"))] >>

\* min_date, max_date of lines 103 and 165: timestamps, not yet days
min_date(rows) == SetMin(ColumnSet(rows, "gateway_timestamp"))

max_date(rows) == SetMax(ColumnSet(rows, "gateway_timestamp"))

\* the value the date_input shows before the user touches it
default_range(rows) ==
    LET max_minus_window == max_date(rows) - DefaultWindowDays * TicksPerDay
        default_start == IF min_date(rows) >= max_minus_window
                         THEN min_date(rows) ELSE max_minus_window
        default_end == max_date(rows)
    IN <<date(default_start), date(default_end)>>

\* the filter comparing the timestamps themselves with the two dates taken
\* at midnight
date_filter_by_timestamp(rows, start_date, end_date) ==
    SelectSeq(rows, LAMBDA r :
        /\ r.gateway_timestamp >= start_date * TicksPerDay
        /\ r.gateway_timestamp <= end_date * TicksPerDay)

\* df[(df.gateway_timestamp.dt.date >= start_date)
\*    & (df.gateway_timestamp.dt.date <= end_date)]
date_filter(rows, start_date, end_date) ==
    SelectSeq(rows, LAMBDA r :
        /\ date(r.gateway_timestamp) >= start_date
        /\ date(r.gateway_timestamp) <= end_date)

\* the cards of lines 86-100 and 148-162: computed from the loaded table,
\* before the date filter is applied
cards_of_run(loaded, filtered) ==
    IF loaded # <<>> THEN metric_cards(loaded) ELSE <<>>

Repeat(x, n) == [i \in 1..n |-> x]

\* one run of a sensor page.  With an empty table min() and max() are NaT
\* and what date_input does with them is not decided by this script: the
\* run either raises there or goes on with an empty table.
SensorPage(p) ==
    /\ page = p
    /\ pc = "start"
    /\ IF sensor_csv = <<>>
       THEN /\ cards' = <<>>
            /\ selected' = <<>>
            /\ df' = <<>>
            /\ \/ pc' = "error" /\ out' = <<"title">>
               \/ pc' = "done" /\ out' = <<"title", "plotly_chart">>
       ELSE /\ selected' = IF date_range = <<>>
                           THEN default_range(sensor_csv) ELSE date_range
            /\ df' = date_filter(sensor_csv, selected'[1], selected'[2])
            /\ cards' = cards_of_run(sensor_csv, df')
            /\ out' = <<"title">> \o Repeat("metric", Len(cards'))
                         \o <<"plotly_chart">>
            /\ pc' = "done"
    /\ UNCHANGED <<page, camera_csv, sensor_csv, date_range, detected_object,
                   category, summary>>

Sensor1 == SensorPage("Sensor 1")

Sensor2 == SensorPage("Sensor 2")

\* the user picks a range in the sidebar's date_input, whose min_value and
\* max_value are the days of the first and the last reading; Streamlit then
\* runs the script again from the top
SelectDateRange ==
    /\ page \in {"Sensor 1", "Sensor 2"}
    /\ pc = "done"
    /\ sensor_csv # <<>>
    /\ \E s, e \in date(min_date(sensor_csv))..date(max_date(sensor_csv)) :
          /\ s <= e
          /\ date_range' = <<s, e>>
    /\ pc' = "start"
    /\ selected' = <<>>
    /\ df' = <<>>
    /\ cards' = <<>>
    /\ out' = <<>>
    /\ UNCHANGED <<page, camera_csv, sensor_csv, detected_object, category,
                   summary>>

---------------------------------------------------------------------------
(* The inputs *)

SeqsUpTo(S, n) == UNION {[1..k -> S] : k \in 0..n}

HealthyPlant == <<"H", "e", "a", "l", "t", "h", "y", " ", "P", "l", "a", "n", "t">>

SnailDamage == <<"S", "N", "A", "I", "L", " ", "d", "a", "m", "a", "g", "e">>

WiltingLeaf == <<"w", "i", "l", "t", "i", "n", "g", " ", "l", "e", "a", "f">>

Xyz == <<"x", "y", "z">>

DryLeaf == <<"D", "r", "y", " ", "l", "e", "a", "f">>

\* the cells of the camera tables of Spec
TableCells == {HealthyPlant, SnailDamage, WiltingLeaf, Xyz, DryLeaf}

CameraFiles ==
    [column : {"detected_object", "label"}, rows : SeqsUpTo(TableCells, MaxRows)]

NoCameraFile == [column |-> "label", rows |-> <<>>]

Timestamps == 0..((MaxDay + 1) * TicksPerDay - 1)

Measurements ==
    {[raw_adc |-> 1, vwc_percent |-> 2], [raw_adc |-> 2, vwc_percent |-> 1]}

Readings ==
    {[gateway_timestamp |-> t, raw_adc |-> m.raw_adc, vwc_percent |-> m.vwc_percent] :
        t \in Timestamps, m \in Measurements}

SensorFiles == SeqsUpTo(Readings, MaxReadings)

Fresh ==
    /\ pc = "start"
    /\ date_range = <<>>
    /\ detected_object = <<>>
    /\ category = <<>>
    /\ summary = <<>>
    /\ selected = <<>>
    /\ df = <<>>
    /\ cards = <<>>
    /\ out = <<>>

Init ==
    /\ page \in {"Sensor 1", "Sensor 2", "Camera Sensor"}
    /\ IF page = "Camera Sensor"
       THEN camera_csv \in CameraFiles /\ sensor_csv = <<>>
       ELSE camera_csv = NoCameraFile /\ sensor_csv \in SensorFiles
    /\ Fresh

Next ==
    \/ Sensor1
    \/ Sensor2
    \/ SelectDateRange
    \/ CameraClassify
    \/ CameraMissingColumn

Spec == Init /\ [][Next]_vars

---------------------------------------------------------------------------
(* The classifier alone: camera tables of two cells, a label put together  *)
(* from fragments and the same label in another letter case, and the       *)
(* four-label table of the specification's scenario.                        *)

Fragments == {
    <<"S", "N", "A", "I", "L">>,
    <<" ", "d", "a", "m", "a", "g", "e">>,
    <<"H", "e", "a", "l", "t", "h", "y">>,
    <<" ", "P", "l", "a", "n", "t">>,
    <<"w", "i", "l", "t", "i", "n", "g">>,
    <<" ", "l", "e", "a", "f">>,
    <<"x", "y", "z">>,
    <<"d", "e", "a", "d">>,
    <<"D", "r", "y">>,
    <<"n", "a", "n">>,
    <<"s", "n", "a">>,
    <<"i", "l">>,
    <<"G", "r", "e", "e", "n">>,
    <<"Y", "e", "l", "l", "o", "w">> }

RECURSIVE Flatten(_)
Flatten(fs) == IF fs = <<>> THEN <<>> ELSE Head(fs) \o Flatten(Tail(fs))

Labels == {Flatten(fs) : fs \in SeqsUpTo(Fragments, MaxFrags)}

upper(s) ==
    [i \in DOMAIN s |->
        IF IndexIn(LowerLetters, s[i]) > 0
        THEN UpperLetters[IndexIn(LowerLetters, s[i])]
        ELSE s[i]]

swapcase(s) ==
    [i \in DOMAIN s |->
        IF IndexIn(LowerLetters, s[i]) > 0
        THEN UpperLetters[IndexIn(LowerLetters, s[i])]
        ELSE IF IndexIn(UpperLetters, s[i]) > 0
        THEN LowerLetters[IndexIn(UpperLetters, s[i])]
        ELSE s[i]]

Scenario == <<HealthyPlant, SnailDamage, WiltingLeaf, Xyz>>

LabelTables ==
    UNION {{<<l, v>> : v \in {l, upper(l), swapcase(l)}} : l \in Labels}
    \cup {<<NaN, v>> : v \in {NaN, <<"n", "a", "n">>, <<"N", "a", "N">>}}
    \cup {Scenario}

InitClassify ==
    /\ page = "Camera Sensor"
    /\ camera_csv \in [column : {"detected_object"}, rows : LabelTables]
    /\ sensor_csv = <<>>
    /\ Fresh

NextClassify == CameraClassify

SpecClassify == InitClassify /\ [][NextClassify]_vars

---------------------------------------------------------------------------
(* Properties *)

DeclaredOrder ==
    <<"snail-infested crops", "stressed crops", "healthy crops", "dead crops">>

FiveCategories ==
    {DeclaredOrder[i] : i \in DOMAIN DeclaredOrder} \cup {"unclassified"}

KeywordsOf(name) ==
    categories[CHOOSE i \in DOMAIN categories : categories[i].cat = name].keywords

\* k occurs in text at offset o, letter for letter
OccursAt(k, text, o) ==
    /\ o + Len(k) <= Len(text)
    /\ \A j \in DOMAIN k : text[o + j] = k[j]

OccursIn(k, text) == \E o \in 0..Len(text) : OccursAt(k, text, o)

\* some keyword of the named category occurs in text
Matches(name, text) ==
    \E n \in DOMAIN KeywordsOf(name) : OccursIn(KeywordsOf(name)[n], text)

SameLetter(a, b) ==
    \/ a = b
    \/ \E n \in DOMAIN UpperLetters :
          {a, b} = {UpperLetters[n], LowerLetters[n]}

\* two texts that differ at most in the case of their letters
SameUpToCase(a, b) ==
    /\ Len(a) = Len(b)
    /\ \A i \in DOMAIN a : SameLetter(a[i], b[i])

\* k occurs somewhere in text when the case of the letters is ignored
OccursIgnoringCase(k, text) ==
    \E o \in 0..Len(text) :
        /\ o + Len(k) <= Len(text)
        /\ \A j \in DOMAIN k : SameLetter(text[o + j], k[j])

\* the Camera Sensor page ran on a table that has the column
Classified ==
    /\ page = "Camera Sensor"
    /\ pc = "done"
    /\ camera_csv.column = "detected_object"

CountOf(name) == Cardinality({i \in DOMAIN category : category[i] = name})

\* C1: every label gets exactly one of the five categories, 'unclassified'
\* exactly when no keyword of any declared category occurs in the
\* lower-cased label, and equal labels get equal categories.
C1_ClassificationTotal ==
    Classified =>
        /\ Len(category) = Len(camera_csv.rows)
        /\ Len(detected_object) = Len(camera_csv.rows)
        /\ \A i \in DOMAIN category :
              /\ category[i] \in FiveCategories
              /\ category[i] = "unclassified" <=>
                    ~ \E c \in DOMAIN DeclaredOrder :
                          Matches(DeclaredOrder[c], detected_object[i])
        /\ \A i, j \in DOMAIN category :
              camera_csv.rows[i] = camera_csv.rows[j] => category[i] = category[j]

\* C1 witness: a missing value, read as the text "nan", is unclassified.
C1_Witness ==
    /\ Classified
    /\ camera_csv.rows[1] = NaN
    /\ detected_object[1] = <<"n", "a", "n">>
    /\ category[1] = "unclassified"

\* C2: the category of a label is the earliest category, in the declared
\* order, one of whose keywords occurs in the lower-cased label.
C2_FirstMatchWins ==
    Classified =>
        \A i \in DOMAIN category : \A c \in DOMAIN DeclaredOrder :
            ( /\ Matches(DeclaredOrder[c], detected_object[i])
              /\ \A b \in 1..(c - 1) : ~ Matches(DeclaredOrder[b], detected_object[i]) )
            => category[i] = DeclaredOrder[c]

\* C2 witness: a label with keywords of two categories went to the earlier.
C2_Witness ==
    /\ Classified
    /\ \E i \in DOMAIN category : \E c, b \in DOMAIN DeclaredOrder :
          /\ c < b
          /\ Matches(DeclaredOrder[c], detected_object[i])
          /\ Matches(DeclaredOrder[b], detected_object[i])
          /\ category[i] = DeclaredOrder[c]

\* C3: a keyword that occurs anywhere in a label, in whatever letter case,
\* classifies it; labels that differ only in letter case get the same
\* category; and the scenario's four labels get healthy, snail-infested,
\* stressed, unclassified.
C3_CaseInsensitiveSubstring ==
    Classified =>
        /\ \A i, j \in DOMAIN category :
              SameUpToCase(camera_csv.rows[i], camera_csv.rows[j])
                  => category[i] = category[j]
        /\ \A i \in DOMAIN category : \A c \in DOMAIN DeclaredOrder :
              (\E n \in DOMAIN KeywordsOf(DeclaredOrder[c]) :
                  OccursIgnoringCase(KeywordsOf(DeclaredOrder[c])[n],
                                     camera_csv.rows[i]))
                  => category[i] # "unclassified"
        /\ camera_csv.rows = Scenario =>
              category = <<"healthy crops", "snail-infested crops",
                           "stressed crops", "unclassified">>

\* C3 witness: the scenario's table has been classified.
C3_Witness ==
    /\ Classified
    /\ camera_csv.rows = Scenario
    /\ category = <<"healthy crops", "snail-infested crops",
                    "stressed crops", "unclassified">>

\* C4: the summary has exactly four rows, the declared categories in the
\* declared order, each with the number of detections of that category,
\* and no row for 'unclassified'.
C4_SummaryRows ==
    Classified =>
        /\ Len(summary) = Len(DeclaredOrder)
        /\ \A i \in DOMAIN summary :
              /\ summary[i].Category = DeclaredOrder[i]
              /\ summary[i].Count = CountOf(DeclaredOrder[i])
              /\ summary[i].Category # "unclassified"

\* C4 witness: a non-empty table all of whose labels are unclassified.
C4_Witness ==
    /\ Classified
    /\ Len(category) > 1
    /\ \A i \in DOMAIN category : category[i] = "unclassified"
    /\ Len(summary) = Len(DeclaredOrder)
    /\ \A i \in DOMAIN summary : summary[i].Count = 0

\* C5: the counts of the four declared categories plus the number of
\* unclassified detections equal the number of rows of the camera table.
C5_CountConservation ==
    Classified =>
        Sum(summary, "Count") + CountOf("unclassified") = Len(camera_csv.rows)

\* C5 witness: a table with classified and unclassified detections.
C5_Witness ==
    /\ Classified
    /\ CountOf("unclassified") > 1
    /\ Sum(summary, "Count") > 1

\* the total the percentages are computed from
Total == Sum(summary, "Count")

\* the sum of the four percentages, in hundredths of a percent
PercentageSum == Sum(summary, "Percentage")

OneHundredPercent == Hundred * Pow10(Decimals)

\* C6 as stated: the four percentages sum to at most 100, and to 100 when
\* nothing is unclassified and the total is greater than 0.
C6_Original ==
    Classified =>
        /\ PercentageSum <= OneHundredPercent
        /\ (CountOf("unclassified") = 0 /\ Total > 0)
              => PercentageSum = OneHundredPercent

\* C6 amended: the four percentages sum to 100 give or take 0.02 whenever
\* the total is greater than 0, and to 0 when the total is 0.
C6_PercentageSum ==
    Classified =>
        /\ Total > 0 =>
              /\ PercentageSum >= OneHundredPercent - 2
              /\ PercentageSum <= OneHundredPercent + 2
        /\ Total = 0 => PercentageSum = 0

\* C6 witness: counts 1, 1, 1, 3 give 16.67 * 3 + 50.00 = 100.01.
C6_Witness ==
    /\ Classified
    /\ CountOf("unclassified") = 0
    /\ PercentageSum = OneHundredPercent + 1

\* C7: when the total is 0 every one of the four rows has Percentage 0.
C7_ZeroTotal ==
    (Classified /\ Total = 0) =>
        /\ Len(summary) = Len(DeclaredOrder)
        /\ \A i \in DOMAIN summary : summary[i].Percentage = 0

\* C7 witness: every detection of a non-empty table is unclassified.
C7_Witness ==
    /\ Classified
    /\ Len(camera_csv.rows) > 0
    /\ Total = 0
    /\ \A i \in DOMAIN summary : summary[i].Percentage = 0

\* a sensor page ran to its end on a table that has readings
Filtered ==
    /\ page \in {"Sensor 1", "Sensor 2"}
    /\ pc = "done"
    /\ sensor_csv # <<>>

\* the timestamp lies on a day from start_date to end_date, at any time of
\* that day
WithinDays(ts, start_date, end_date) ==
    /\ start_date * TicksPerDay <= ts
    /\ ts < (end_date + 1) * TicksPerDay

Occurrences(rows, r) == Cardinality({i \in DOMAIN rows : rows[i] = r})

\* C8: the filtered table holds exactly the input rows whose day lies in
\* [start_date, end_date], both ends included and the time of day ignored;
\* so every output row is in the range and there are no more output rows
\* than input rows.
C8_DateFilter ==
    Filtered =>
        /\ \A i \in DOMAIN df :
              WithinDays(df[i].gateway_timestamp, selected[1], selected[2])
        /\ \A r \in Readings :
              Occurrences(df, r) =
                  IF WithinDays(r.gateway_timestamp, selected[1], selected[2])
                  THEN Occurrences(sensor_csv, r) ELSE 0
        /\ Len(df) <= Len(sensor_csv)

\* C8 witness: the user picked a range; a reading at the last tick of
\* end_date was kept and another reading was dropped.
C8_Witness ==
    /\ Filtered
    /\ date_range # <<>>
    /\ selected = date_range
    /\ Len(df) < Len(sensor_csv)
    /\ \E i \in DOMAIN df :
          df[i].gateway_timestamp = (selected[2] + 1) * TicksPerDay - 1

\* C9: without a 'detected_object' column the Camera Sensor page computes
\* no normalised column, no categories and no summary, emits no chart and
\* no table, and ends without an error having emitted, after the page
\* title, only the warning.
C9_MissingColumn ==
    ( /\ page = "Camera Sensor"
      /\ camera_csv.column # "detected_object"
      /\ pc # "start" )
    => /\ pc = "done"
       /\ detected_object = <<>>
       /\ category = <<>>
       /\ summary = <<>>
       /\ out = <<"title", "warning">>

\* C9 witness: the page ran on a non-empty table without the column.
C9_Witness ==
    /\ page = "Camera Sensor"
    /\ camera_csv.column # "detected_object"
    /\ camera_csv.rows # <<>>
    /\ pc = "done"
    /\ out = <<"title", "warning">>

\* C10: when the date filter leaves no readings no summary cards are
\* emitted, and the cards that are emitted are the highest and lowest
\* raw_adc and vwc_percent of the readings inside the selected range.
C10_CardsFromFilteredReadings ==
    (page \in {"Sensor 1", "Sensor 2"} /\ pc = "done") =>
        /\ df = <<>> => cards = <<>>
        /\ df = <<>> => ~ \E i \in DOMAIN out : out[i] = "metric"
        /\ cards # <<>> => cards = metric_cards(df)

===========================================================================
